---- MODULE Spec2Model ----
(***************************************************************************)
(* A model of app.py, the ICD-11 diagnosis classifier dashboard: the       *)
(* chapter table, find_category, the load section of the script, and the   *)
(* summary, range search and specific code search tabs.                    *)
(*                                                                         *)
(* A Python string is a sequence of one-character strings; characters are  *)
(* ordered by their ASCII code (Ord), as Python orders str values.         *)
(***************************************************************************)
EXTENDS Integers, Sequences, FiniteSets

VARIABLES
    code,            \* the argument of a find_category call
    result,          \* what that call returned (Pending before the call)
    uploaded_files,  \* the value of the st.file_uploader widget
    data,            \* st.session_state.data
    load_status,     \* how the load section of the last script run ended
    clicked,         \* the button the last script run handled
    start,           \* the "Start Code" text input of that run
    end,             \* the "End Code" text input of that run
    sc,              \* the "Specific Code" text input of that run
    summary,         \* the table tab 2 displayed in that run
    filtered,        \* the table tab 3 displayed in that run
    filtered_sc      \* the table tab 4 displayed in that run

vars == <<code, result, uploaded_files, data, load_status, clicked,
          start, end, sc, summary, filtered, filtered_sc>>

sessionVars == <<uploaded_files, data, load_status, clicked,
                 start, end, sc, summary, filtered, filtered_sc>>

-----------------------------------------------------------------------------
(* Bounds of the model.                                                    *)

\* the longest string handed to find_category
MaxLen == 4

\* the characters those strings are made of
Alphabet == {" ", "0", "1", "2", "A", "H", "N", "Z", "a", "NBSP"}

-----------------------------------------------------------------------------
(* Python str: order, strip, upper, startswith.                            *)

\* the characters of the model, each group in code order: the space (code
\* 32), the digits (48..57), the upper-case letters (65..90), the lower-case
\* letters (97..122) and the no-break space U+00A0 (160), written NBSP, a
\* whitespace character that sorts after every letter
Digits == <<"0", "1", "2", "3", "4", "5", "6", "7", "8", "9">>

UpperLetters ==
    <<"A", "B", "C", "D", "E", "F", "G", "H", "I", "J", "K", "L", "M",
      "N", "O", "P", "Q", "R", "S", "T", "U", "V", "W", "X", "Y", "Z">>

LowerLetters ==
    <<"a", "b", "c", "d", "e", "f", "g", "h", "i", "j", "k", "l", "m",
      "n", "o", "p", "q", "r", "s", "t", "u", "v", "w", "x", "y", "z">>

Range(s) == {s[i] : i \in 1..Len(s)}

IndexOf(s, c) == CHOOSE i \in 1..Len(s) : s[i] = c

Chars ==
    {" ", "NBSP"} \cup Range(Digits) \cup Range(UpperLetters) \cup Range(LowerLetters)

\* ord(c)
Ord ==
    [c \in Chars |->
        IF c = " " THEN 32
        ELSE IF c = "NBSP" THEN 160
        ELSE IF c \in Range(Digits) THEN 47 + IndexOf(Digits, c)
        ELSE IF c \in Range(UpperLetters) THEN 64 + IndexOf(UpperLetters, c)
        ELSE 96 + IndexOf(LowerLetters, c)]

Min(S) == CHOOSE x \in S : \A y \in S : x <= y

\* a <= b for two str values, from position i on: the first differing
\* character decides, and a proper prefix is smaller
RECURSIVE LexLeqFrom(_, _, _)
LexLeqFrom(a, b, i) ==
    IF i > Len(a) THEN TRUE
    ELSE IF i > Len(b) THEN FALSE
    ELSE IF a[i] = b[i] THEN LexLeqFrom(a, b, i + 1)
    ELSE Ord[a[i]] < Ord[b[i]]

LexLeq(a, b) == LexLeqFrom(a, b, 1)

\* c.isspace(), for one character
IsSpace(c) == c \in {" ", "NBSP"}

\* s.strip(): s without its leading and trailing whitespace
strip(s) ==
    LET keep == {i \in 1..Len(s) : ~IsSpace(s[i])}
    IN  IF keep = {} THEN <<>>
        ELSE SubSeq(s, Min(keep), CHOOSE i \in keep : \A j \in keep : j <= i)

\* c.upper(), for one character
UpperChar(c) ==
    IF c \in Range(LowerLetters) THEN UpperLetters[IndexOf(LowerLetters, c)]
    ELSE c

\* s.upper()
upper(s) == [i \in 1..Len(s) |-> UpperChar(s[i])]

\* s.startswith(p)
startswith(s, p) == Len(s) >= Len(p) /\ SubSeq(s, 1, Len(p)) = p

-----------------------------------------------------------------------------
(* The chapter table and find_category.                                    *)

icd11_ranges ==
    << [category |-> "1. Certain infectious or parasitic diseases",
        start |-> <<"1", "A", "0", "0">>, end |-> <<"1", "H", "0", "Z">>],
       [category |-> "2. Neoplasms",
        start |-> <<"2", "A", "0", "0">>, end |-> <<"2", "F", "9", "Z">>],
       [category |-> "3. Diseases of the blood or blood-forming organs",
        start |-> <<"3", "A", "0", "0">>, end |-> <<"3", "C", "0", "Z">>],
       [category |-> "4. Diseases of the immune system",
        start |-> <<"4", "A", "0", "0">>, end |-> <<"4", "B", "4", "Z">>],
       [category |-> "5. Endocrine, nutritional and metabolic diseases",
        start |-> <<"5", "A", "0", "0">>, end |-> <<"5", "D", "4", "6">>],
       [category |-> "6. Mental, behavioural and neurodevelopmental disorders",
        start |-> <<"6", "A", "0", "0">>, end |-> <<"6", "E", "8", "Z">>],
       [category |-> "7. Sleep-wake disorders",
        start |-> <<"7", "A", "0", "0">>, end |-> <<"7", "B", "2", "Z">>],
       [category |-> "8. Diseases of the nervous system",
        start |-> <<"8", "A", "0", "0">>, end |-> <<"8", "E", "7", "Z">>],
       [category |-> "9. Diseases of the visual system",
        start |-> <<"9", "A", "0", "0">>, end |-> <<"9", "E", "1", "Z">>],
       [category |-> "10. Diseases of the ear or mastoid process",
        start |-> <<"A", "A", "0", "0">>, end |-> <<"A", "C", "0", "Z">>],
       [category |-> "11. Diseases of the circulatory system",
        start |-> <<"B", "A", "0", "0">>, end |-> <<"B", "E", "2", "Z">>],
       [category |-> "12. Diseases of the respiratory system",
        start |-> <<"C", "A", "0", "0">>, end |-> <<"C", "B", "7", "Z">>],
       [category |-> "13. Diseases of the digestive system",
        start |-> <<"D", "A", "0", "0">>, end |-> <<"D", "E", "2", "Z">>],
       [category |-> "14. Diseases of the skin or subcutaneous tissue",
        start |-> <<"E", "A", "0", "0">>, end |-> <<"E", "M", "0", "Z">>],
       [category |-> "15. Diseases of musculoskeletal system",
        start |-> <<"F", "A", "0", "0">>, end |-> <<"F", "C", "0", "Z">>],
       [category |-> "16. Diseases of the genitourinary system",
        start |-> <<"G", "A", "0", "0">>, end |-> <<"G", "C", "8", "Z">>],
       [category |-> "17. Sexual health conditions",
        start |-> <<"H", "A", "0", "0">>, end |-> <<"H", "A", "8", "Z">>],
       [category |-> "18. Pregnancy/childbirth",
        start |-> <<"J", "A", "0", "0">>, end |-> <<"J", "B", "6", "Z">>],
       [category |-> "19. Perinatal conditions",
        start |-> <<"K", "A", "0", "0">>, end |-> <<"K", "D", "5", "Z">>],
       [category |-> "20. Developmental anomalies",
        start |-> <<"L", "A", "0", "0">>, end |-> <<"L", "D", "9", "Z">>],
       [category |-> "21. Symptoms/clinical findings NEC",
        start |-> <<"M", "A", "0", "0">>, end |-> <<"M", "H", "2", "Y">>],
       [category |-> "22. Injury/poisoning/external causes",
        start |-> <<"N", "A", "0", "0">>, end |-> <<"N", "F", "2", "Z">>] >>

Unknown == "Unknown"

\* start <= code <= end
InRange_ExclusiveEnd(c, s, e) == LexLeq(s, c) /\ LexLeq(c, e) /\ c # e
InRange(c, s, e) == LexLeq(s, c) /\ LexLeq(c, e)

\* code.startswith(start[:2])
HasStartPrefix_OneChar(c, s) == startswith(c, SubSeq(s, 1, 1))
HasStartPrefix(c, s) == startswith(c, SubSeq(s, 1, 2))

\* the for loop of find_category, from the k-th item of icd11_ranges on
RECURSIVE find_category_loop(_, _)
find_category_loop(c, k) ==
    IF k > Len(icd11_ranges) THEN Unknown
    ELSE LET r == icd11_ranges[k]
         IN  IF InRange(c, r.start, r.end) THEN r.category
             ELSE IF HasStartPrefix(c, r.start) THEN r.category
             ELSE find_category_loop(c, k + 1)

find_category_NotNormalized(c) == find_category_loop(c, 1)
find_category(c) == find_category_loop(upper(strip(c)), 1)

-----------------------------------------------------------------------------
(* Data frames and the load section of the script.                         *)
(*                                                                         *)
(* A frame is [columns, rows]; a row is a function from the frame's        *)
(* columns to cells. A cell is a str, or NaN where pd.concat filled a      *)
(* column a file does not have. An uploaded file is [suffix, header,       *)
(* lines]: the end of its name, the name of the one column of a .csv or    *)
(* .xlsx table, and the cells of that column, one per row; a .txt file has *)
(* no header and each of its lines is a row.                               *)

NaN == "NaN"

\* st.session_state.data as line 59 creates it: pd.DataFrame()
EmptyFrame == [columns |-> {}, rows |-> <<>>]

\* df.empty
IsEmpty(df) == df.columns = {} \/ df.rows = <<>>

\* the suffixes lines 68-72 accept; the uploader also lets through names
\* such as "X.CSV", which they do not
SupportedSuffixes == {".csv", ".xlsx", ".txt"}

\* pd.read_csv(file), pd.read_excel(file),
\* pd.read_csv(file, header=None, names=["Diagnosis"])
ReadFile(file) ==
    LET column == IF file.suffix = ".txt" THEN "Diagnosis" ELSE file.header
    IN  [columns |-> {column},
         rows |-> [i \in 1..Len(file.lines) |-> [c \in {column} |-> file.lines[i]]]]

\* pd.concat(dfs, ignore_index=True): the rows of every frame in order, over
\* the union of the columns, NaN where a frame lacks the column
RECURSIVE concat(_)
concat(dfs) ==
    IF dfs = <<>> THEN EmptyFrame
    ELSE LET n == Len(dfs)
             before == concat(SubSeq(dfs, 1, n - 1))
             last == dfs[n]
             columns == before.columns \cup last.columns
             Fill(r, have) == [c \in columns |-> IF c \in have THEN r[c] ELSE NaN]
         IN  [columns |-> columns,
              rows |-> [i \in 1..Len(before.rows) |-> Fill(before.rows[i], before.columns)]
                       \o [i \in 1..Len(last.rows) |-> Fill(last.rows[i], last.columns)]]

\* "Diagnosis" if "Diagnosis" in data.columns else "code"
CodeColumn(df) == IF "Diagnosis" \in df.columns THEN "Diagnosis" ELSE "code"

\* cell -> str(cell), as astype(str) does
astype_str(cell) == IF cell = NaN THEN <<"n", "a", "n">> ELSE cell

\* data[col].astype(str).str.strip().str.upper(), for one cell
NormalizeCell_NoStrip(cell) == upper(astype_str(cell))
NormalizeCell(cell) == upper(strip(astype_str(cell)))

\* lines 90-91: normalize column col and add the ICD_Category column
Classified(df, col) ==
    [columns |-> df.columns \cup {"ICD_Category"},
     rows |-> [i \in 1..Len(df.rows) |->
                 LET normalized == NormalizeCell(df.rows[i][col])
                 IN  [c \in df.columns \cup {"ICD_Category"} |->
                         IF c = "ICD_Category" THEN find_category(normalized)
                         ELSE IF c = col THEN normalized
                         ELSE df.rows[i][c]]]]

\* lines 65-92, for a non-empty list of files: how the section ends, and the
\* frame it stores in the session when it succeeds
LoadData(files) ==
    IF \E i \in 1..Len(files) : files[i].suffix \notin SupportedSuffixes
    THEN [status |-> "unsupported", data |-> EmptyFrame]
    ELSE LET df == concat([i \in 1..Len(files) |-> ReadFile(files[i])])
         IN  IF "Diagnosis" \in df.columns
                 THEN [status |-> "success", data |-> Classified(df, "Diagnosis")]
             ELSE IF "code" \in df.columns
                 THEN [status |-> "success", data |-> Classified(df, "code")]
             ELSE [status |-> "no_column", data |-> EmptyFrame]

-----------------------------------------------------------------------------
(* The tabs.                                                               *)

\* the distinct values of a column, in the order they first occur
RECURSIVE unique(_)
unique(values) ==
    IF values = <<>> THEN <<>>
    ELSE LET n == Len(values)
             before == unique(SubSeq(values, 1, n - 1))
         IN  IF values[n] \in Range(before) THEN before
             ELSE Append(before, values[n])

CountOf(values, v) == Cardinality({i \in 1..Len(values) : values[i] = v})

\* the orders in which a sort by descending count can leave a set of
\* (chapter, count) rows: at each position any row of the greatest remaining
\* count
RECURSIVE DescendingOrders(_)
DescendingOrders(rows) ==
    IF rows = {} THEN {<<>>}
    ELSE LET first == {r \in rows : \A q \in rows : r.count >= q.count}
         IN  UNION {{<<r>> \o t : t \in DescendingOrders(rows \ {r})} : r \in first}

\* the (chapter, count) rows of a column of labels, in the order the labels
\* first occur
Counted(values) ==
    LET keys == unique(values)
    IN  [i \in 1..Len(keys) |-> [chapter |-> keys[i], count |-> CountOf(values, keys[i])]]

\* the tables series.value_counts().reset_index() can give: one row per
\* distinct value, sorted by descending count. pandas sorts the counts with
\* Series.sort_values' default kind, "quicksort", which is not a stable
\* sort: the order of rows with equal counts is whatever the numpy build
\* produces.
value_counts_Unsorted(values) == {Counted(values)}
value_counts_DropsUnknown(values) ==
    DescendingOrders({r \in Range(Counted(values)) : r.chapter # Unknown})
value_counts(values) == DescendingOrders(Range(Counted(values)))

\* tab 2: the summary tables it can display ("Upload data first!" displays
\* none)
SummaryTab(df) ==
    IF IsEmpty(df) THEN {<<>>}
    ELSE value_counts([i \in 1..Len(df.rows) |-> df.rows[i]["ICD_Category"]])

\* (data[col] >= start.upper()) & (data[col] <= end.upper()), for one cell
RangeMask_BoundsAsTyped(cell, s, e) == LexLeq(s, cell) /\ LexLeq(cell, e)
RangeMask_SwapsBounds(cell, s, e) ==
    \/ LexLeq(upper(s), cell) /\ LexLeq(cell, upper(e))
    \/ LexLeq(upper(e), cell) /\ LexLeq(cell, upper(s))
RangeMask(cell, s, e) == LexLeq(upper(s), cell) /\ LexLeq(cell, upper(e))

\* lines 155-156: the rows tab 3 displays
RangeSearch(df, s, e) ==
    LET col == CodeColumn(df)
    IN  SelectSeq(df.rows, LAMBDA r : RangeMask(r[col], s, e))

\* data[col].str.startswith(sc.upper()), for one cell
PrefixMask_PrefixAsTyped(cell, p) == startswith(cell, p)
PrefixMask(cell, p) == startswith(cell, upper(p))

\* lines 174-176: the rows tab 4 displays, a copy with ICD_Category
\* recomputed
SpecificCodeSearch(df, p) ==
    LET col == CodeColumn(df)
        matching == SelectSeq(df.rows, LAMBDA r : PrefixMask(r[col], p))
    IN  [i \in 1..Len(matching) |->
            [matching[i] EXCEPT !["ICD_Category"] = find_category(matching[i][col])]]

-----------------------------------------------------------------------------
(* One run of the script. Streamlit runs the whole script each time a      *)
(* widget changes: the load section first, then the tabs, unless st.stop() *)
(* ended the run.                                                          *)

\* the load section of a run with these files in the uploader: skipped
\* when there are none. Every run reads the uploaded files again, each from
\* its start.
LoadSection(files) ==
    IF files = <<>> THEN [files |-> files, status |-> "none", data |-> data]
    ELSE LET loaded == LoadData(files)
         IN  [files |-> files, status |-> loaded.status, data |-> loaded.data]

Stopped(load) == load.status \in {"unsupported", "no_column"}

\* what a run displays, given how its load section ended
Display(load, button, s, e, p) ==
    IF Stopped(load)
    THEN \* st.error, st.stop(): no tab runs
         /\ clicked' = "none"
         /\ start' = <<>> /\ end' = <<>> /\ sc' = <<>>
         /\ summary' = <<>> /\ filtered' = <<>> /\ filtered_sc' = <<>>
    ELSE /\ clicked' = button
         /\ start' = s /\ end' = e /\ sc' = p
         /\ summary' \in SummaryTab(load.data)
         /\ filtered' = IF button = "range" THEN RangeSearch(load.data, s, e)
                        ELSE <<>>
         /\ filtered_sc' = IF button = "specific"
                           THEN SpecificCodeSearch(load.data, p)
                           ELSE <<>>

\* one run, given how its load section ended: line 92 is the only write of
\* st.session_state.data
Run(load, button, s, e, p) ==
    /\ uploaded_files' = load.files
    /\ load_status' = load.status
    /\ data' = IF load.status = "success" THEN load.data ELSE data
    /\ Display(load, button, s, e, p)
    /\ UNCHANGED <<code, result>>

\* the buttons of tabs 3 and 4 exist when the last run reached the tabs and
\* the frame was not empty
ButtonsShown == load_status \in {"none", "success"} /\ ~IsEmpty(data)

-----------------------------------------------------------------------------
(* Calls of find_category.                                                 *)

Pending == "<pending>"

\* every string of at most MaxLen characters of Alphabet
Codes == UNION {[1..n -> Alphabet] : n \in 0..MaxLen}

SessionInit ==
    /\ uploaded_files = <<>>
    /\ data = EmptyFrame
    /\ load_status = "none"
    /\ clicked = "none"
    /\ start = <<>>
    /\ end = <<>>
    /\ sc = <<>>
    /\ summary = <<>>
    /\ filtered = <<>>
    /\ filtered_sc = <<>>

InitClassify ==
    /\ code \in Codes
    /\ result = Pending
    /\ SessionInit

Classify ==
    /\ result = Pending
    /\ result' = find_category(code)
    /\ UNCHANGED <<code, sessionVars>>

NextClassify == Classify

SpecClassify == InitClassify /\ [][NextClassify]_vars

-----------------------------------------------------------------------------
(* Inputs of the model.                                                    *)

\* the most files in the uploader at once
MaxFiles == 2

\* the most lines of the uploaded file of SpecQuery
MaxRows == 3

\* the files a user uploads
Files ==
    { [suffix |-> ".csv", header |-> "Diagnosis",
       lines |-> << <<" ", "2", "a", "2", "0", " ">>, <<"z", "z", "z", "z">> >>],
      [suffix |-> ".csv", header |-> "Diagnosis", lines |-> <<>>],
      [suffix |-> ".xlsx", header |-> "code",
       lines |-> << <<"1", "a", "0", "0">> >>],
      [suffix |-> ".txt", header |-> "",
       lines |-> << <<"2", "A", "2", "0">>, <<"1", "H", "0", "Z">> >>],
      [suffix |-> ".csv", header |-> "Other",
       lines |-> << <<"2", "A", "2", "0">> >>],
      [suffix |-> ".CSV", header |-> "Diagnosis",
       lines |-> << <<"2", "A", "2", "0">> >>] }

\* the lines of the uploaded file of SpecQuery
Cells ==
    { <<" ", "2", "a", "2", "0">>, <<"1", "A", "0", "0">>,
      <<"z", "z", "z", "z">>, <<"2", "F", "9", "Z">> }

\* what a user types into the text inputs
Typed == { <<>>, <<"2", "a">>, <<"z", "z", "z", "z">> }

-----------------------------------------------------------------------------
(* The session.                                                            *)

\* the user adds a file to the uploader
UploadFile ==
    /\ Len(uploaded_files) < MaxFiles
    /\ \E f \in Files :
        Run(LoadSection(Append(uploaded_files, f)), "none", <<>>, <<>>, <<>>)

\* the user removes a file from the uploader
RemoveFile ==
    \E i \in 1..Len(uploaded_files) :
        Run(LoadSection(SubSeq(uploaded_files, 1, i - 1)
                            \o SubSeq(uploaded_files, i + 1, Len(uploaded_files))),
            "none", <<>>, <<>>, <<>>)

\* the user presses "Run Range Search"
RunRangeSearch ==
    /\ ButtonsShown
    /\ LET load == LoadSection(uploaded_files)
       IN  \E s \in Typed, e \in Typed : Run(load, "range", s, e, <<>>)

\* the user presses "Run Specific Code Search"
RunSpecificCodeSearch_StoresResult ==
    /\ ButtonsShown
    /\ LET load == LoadSection(uploaded_files)
       IN  \E p \in Typed :
            /\ uploaded_files' = uploaded_files
            /\ load_status' = load.status
            /\ Display(load, "specific", <<>>, <<>>, p)
            /\ data' = [load.data EXCEPT !.rows = filtered_sc']
            /\ UNCHANGED <<code, result>>
RunSpecificCodeSearch ==
    /\ ButtonsShown
    /\ LET load == LoadSection(uploaded_files)
       IN  \E p \in Typed : Run(load, "specific", <<>>, <<>>, p)

Init ==
    /\ code = <<>>
    /\ result = Pending
    /\ SessionInit

Next ==
    \/ UploadFile
    \/ RemoveFile
    \/ RunRangeSearch
    \/ RunSpecificCodeSearch

Spec == Init /\ [][Next]_vars

-----------------------------------------------------------------------------
(* A session in which the user uploads one .txt file, of any lines, and    *)
(* then searches.                                                          *)

\* the user puts a .txt file into the empty uploader
UploadLines ==
    /\ uploaded_files = <<>>
    /\ \E lines \in UNION {[1..n -> Cells] : n \in 0..MaxRows} :
        Run(LoadSection(<<[suffix |-> ".txt", header |-> "", lines |-> lines]>>),
            "none", <<>>, <<>>, <<>>)

NextQuery ==
    \/ UploadLines
    \/ RunRangeSearch
    \/ RunSpecificCodeSearch

SpecQuery == Init /\ [][NextQuery]_vars

-----------------------------------------------------------------------------
(* Claims about find_category, checked under SpecClassify.                 *)

Called == result # Pending

\* C1: for every input code c and every entry (label, s, e) of the chapter
\* table, if s <= c <= e in lexicographic order, both bounds included, then
\* find_category(c) returns that entry's label; no earlier entry pre-empts it.
C1_RangeMemberGetsItsChapter ==
    Called =>
        \A k \in 1..Len(icd11_ranges) :
            (LexLeq(icd11_ranges[k].start, code) /\ LexLeq(code, icd11_ranges[k].end))
                => result = icd11_ranges[k].category

\* the end code of chapter 1 was classified as chapter 1
C1_Witness ==
    /\ Called
    /\ code = icd11_ranges[1].end
    /\ result = icd11_ranges[1].category

\* entry k accepts the normalized code n: by its range or by the first two
\* characters of its start code
EntryAccepts(n, k) ==
    LET s == icd11_ranges[k].start
        e == icd11_ranges[k].end
    IN  \/ LexLeq(s, n) /\ LexLeq(n, e)
        \/ Len(n) >= 2 /\ n[1] = s[1] /\ n[2] = s[2]

\* C2: find_category always returns a label: that of the first entry, in
\* declared order, whose range holds the normalized code or whose start code
\* shares its first two characters, and "Unknown" exactly when there is no
\* such entry; the empty string and "ZZZZ" give "Unknown".
C2_FirstAcceptingEntryOrUnknown ==
    Called =>
        LET n == upper(strip(code))
            accepting == {k \in 1..Len(icd11_ranges) : EntryAccepts(n, k)}
        IN  /\ accepting # {} => result = icd11_ranges[Min(accepting)].category
            /\ accepting = {} <=> result = Unknown
            /\ code \in {<<>>, <<"Z", "Z", "Z", "Z">>} => result = Unknown

\* "ZZZZ" was classified as "Unknown"
C2_Witness ==
    /\ Called
    /\ code = <<"Z", "Z", "Z", "Z">>
    /\ result = Unknown

\* C3: find_category is case-insensitive and whitespace-insensitive: the
\* label of c is the label of c trimmed and upper-cased, so inputs with the
\* same normalized form get the same label.
C3_LabelOfNormalizedForm ==
    Called => result = find_category(upper(strip(code)))

\* " 2a " was classified, and as its normalized form "2A" is
C3_Witness ==
    /\ Called
    /\ code = <<" ", "2", "a", " ">>
    /\ result = "2. Neoplasms"

-----------------------------------------------------------------------------
(* Claims about the searches and the summary, checked under SpecQuery.     *)

\* the code of record i of the loaded collection
CodeOf(i) == data.rows[i][CodeColumn(data)]

\* the j-th smallest element of a set of indices
Nth(S, j) == CHOOSE i \in S : Cardinality({k \in S : k < i}) = j - 1

\* t holds exactly the records of the collection with an index in S, in the
\* collection's order
IsSelection(t, S) ==
    /\ Len(t) = Cardinality(S)
    /\ \A j \in 1..Len(t) : t[j] = data.rows[Nth(S, j)]

\* C4: range search returns exactly the records whose code c satisfies
\* upper(start) <= c <= upper(end), in their original order and with
\* duplicates kept, whatever their chapter, "Unknown" included; the result is
\* a function of the collection and the bounds alone, so a repeated search
\* gives it again.
C4_RangeSearchSelectsByCode ==
    clicked = "range" =>
        IsSelection(filtered,
            {i \in 1..Len(data.rows) :
                LexLeq(upper(start), CodeOf(i)) /\ LexLeq(CodeOf(i), upper(end))})

\* a range search returned some records, one of chapter "Unknown", and left
\* others out
C4_Witness ==
    /\ clicked = "range"
    /\ Len(filtered) >= 2
    /\ Len(filtered) < Len(data.rows)
    /\ \E j \in 1..Len(filtered) : filtered[j]["ICD_Category"] = Unknown

\* C5: range search with start > end, after upper-casing, returns the empty
\* result: the bounds are not swapped.
C5_ReversedBoundsGiveNothing ==
    (clicked = "range" /\ ~LexLeq(upper(start), upper(end))) => filtered = <<>>

\* a search with reversed bounds returned nothing although records lie
\* between the bounds taken the other way round
C5_Witness ==
    /\ clicked = "range"
    /\ ~LexLeq(upper(start), upper(end))
    /\ \E i \in 1..Len(data.rows) :
        LexLeq(upper(end), CodeOf(i)) /\ LexLeq(CodeOf(i), upper(start))
    /\ filtered = <<>>

\* c begins with the characters of p
BeginsWith(c, p) == Len(c) >= Len(p) /\ \A i \in 1..Len(p) : c[i] = p[i]

\* C6: prefix search returns exactly the records whose code starts with
\* upper(p), in original order, all of them when p is empty; the chapter of
\* every returned record is find_category of its code; for p = "2A" every
\* returned chapter is "2. Neoplasms".
C6_PrefixSearchSelectsAndClassifies ==
    clicked = "specific" =>
        LET hits == {i \in 1..Len(data.rows) : BeginsWith(CodeOf(i), upper(sc))}
            col == CodeColumn(data)
        IN  /\ Len(filtered_sc) = Cardinality(hits)
            /\ \A j \in 1..Len(filtered_sc) :
                /\ filtered_sc[j][col] = CodeOf(Nth(hits, j))
                /\ filtered_sc[j]["ICD_Category"] = find_category(filtered_sc[j][col])
                /\ upper(sc) = <<"2", "A">>
                      => filtered_sc[j]["ICD_Category"] = "2. Neoplasms"
            /\ sc = <<>> => Len(filtered_sc) = Len(data.rows)

\* a search for "2a" returned some records of the collection and not others
C6_Witness ==
    /\ clicked = "specific"
    /\ sc = <<"2", "a">>
    /\ Len(filtered_sc) >= 1
    /\ Len(filtered_sc) < Len(data.rows)

\* tab 2 displayed a summary in the last run
SummaryShown == load_status \in {"none", "success"} /\ ~IsEmpty(data)

ChapterOf(i) == data.rows[i]["ICD_Category"]

RECURSIVE SumCounts(_)
SumCounts(t) == IF t = <<>> THEN 0 ELSE t[1].count + SumCounts(Tail(t))

\* C8: the chapter summary has exactly one entry per distinct chapter label
\* of the collection, "Unknown" included, and none for an absent label; each
\* count is the number of records of that chapter, and the counts sum to the
\* number of records.
C8_SummaryCountsEveryChapterOnce ==
    SummaryShown =>
        /\ {summary[j].chapter : j \in 1..Len(summary)}
              = {ChapterOf(i) : i \in 1..Len(data.rows)}
        /\ \A j, k \in 1..Len(summary) : summary[j].chapter = summary[k].chapter => j = k
        /\ \A j \in 1..Len(summary) :
              summary[j].count
                  = Cardinality({i \in 1..Len(data.rows) : ChapterOf(i) = summary[j].chapter})
        /\ SumCounts(summary) = Len(data.rows)

\* a summary with an "Unknown" entry and an entry that counts two records
C8_Witness ==
    /\ SummaryShown
    /\ \E j \in 1..Len(summary) : summary[j].chapter = Unknown
    /\ \E j \in 1..Len(summary) : summary[j].count >= 2

\* the index of the first record of a chapter
FirstOf(chapter) == Min({i \in 1..Len(data.rows) : ChapterOf(i) = chapter})

\* C9, as stated: the summary's entries are in descending order of count, and
\* entries of equal count are in the order their labels first occur in the
\* collection.
C9_DescendingThenFirstEncountered ==
    SummaryShown =>
        \A j, k \in 1..Len(summary) :
            j < k =>
                \/ summary[j].count > summary[k].count
                \/ /\ summary[j].count = summary[k].count
                   /\ FirstOf(summary[j].chapter) < FirstOf(summary[k].chapter)

\* C9, amended: the summary's entries are in descending order of count; the
\* order of entries of equal count is not fixed.
C9_DescendingCount ==
    SummaryShown =>
        \A j, k \in 1..Len(summary) : j < k => summary[j].count >= summary[k].count

\* a summary whose first entry has the greater count and the later first
\* occurrence
C9_Witness ==
    /\ SummaryShown
    /\ Len(summary) >= 2
    /\ summary[1].count > summary[2].count
    /\ FirstOf(summary[1].chapter) > FirstOf(summary[2].chapter)

-----------------------------------------------------------------------------
(* Claims about the session, checked under Spec.                           *)

\* C7: range search and prefix search are read-only: a run that handles a
\* search button leaves the session's collection as it was, records, order,
\* codes and chapters.
C7_SearchesLeaveTheCollection ==
    [][clicked' \in {"range", "specific"} => data' = data]_vars

\* a prefix search displayed a proper part of the collection
C7_Witness ==
    /\ clicked = "specific"
    /\ Len(filtered_sc) >= 1
    /\ Len(filtered_sc) < Len(data.rows)

\* c has no surrounding whitespace and no lower-case letter
IsNormalized(c) ==
    /\ c # <<>> => ~IsSpace(c[1]) /\ ~IsSpace(c[Len(c)])
    /\ \A i \in 1..Len(c) : c[i] \notin Range(LowerLetters)

\* the column a file's cells are read into
ColumnOfFile(file) == IF file.suffix = ".txt" THEN "Diagnosis" ELSE file.header

RECURSIVE LinesBefore(_, _)
LinesBefore(files, k) ==
    IF k = 1 THEN 0 ELSE LinesBefore(files, k - 1) + Len(files[k - 1].lines)

\* df holds the rows of these files and no others: one record per line, in
\* order, and the code of a line of the code column is that line trimmed and
\* upper-cased
HoldsRowsOf(df, files) ==
    /\ Len(df.rows) = LinesBefore(files, Len(files) + 1)
    /\ \A k \in 1..Len(files) :
        \A j \in 1..Len(files[k].lines) :
            ColumnOfFile(files[k]) = CodeColumn(df)
                => df.rows[LinesBefore(files, k) + j][CodeColumn(df)]
                       = upper(strip(files[k].lines[j]))

C10_Records ==
    \A i \in 1..Len(data.rows) :
        /\ IsNormalized(CodeOf(i))
        /\ ChapterOf(i) = find_category(CodeOf(i))

C10_Loads ==
    /\ load_status' \in {"unsupported", "no_column"} => data' = data
    /\ load_status' = "success" => HoldsRowsOf(data', uploaded_files')

\* C10: in every reachable session state every record of the loaded
\* collection has a trimmed, upper-cased code and the chapter find_category
\* gives that code; an aborted load leaves the collection unchanged and a
\* successful load replaces it with the newly loaded rows.
C10_CollectionIsClassified == []C10_Records /\ [][C10_Loads]_vars

\* a load was aborted while the session held a collection
C10_Witness ==
    /\ load_status \in {"unsupported", "no_column"}
    /\ ~IsEmpty(data)

====
